---- MODULE Spec2Model ----
(***************************************************************************)
(* Model of examples_for_lessons/collision_detection/models.py:            *)
(* GameState, ObstacleManager, CollisionObject, Player and Obstacle.       *)
(*                                                                         *)
(* Numbers are decimal fixed point: the integer n stands for n / 1000      *)
(* world units (or seconds), so 0.1 is 100 and GROUND_Y_LEVEL is -800.     *)
(* Every tick length and every coordinate the model draws is chosen so     *)
(* that the products the code forms are whole numbers of 1 / 1000 and      *)
(* that no comparison of the code is decided by the rounding of the        *)
(* binary floating point the code computes in: on these inputs the         *)
(* fixed-point run and the floating-point run take the same branches.      *)
(*                                                                         *)
(* Objects are referred to by identity: 0 is the player, i >= 1 is the     *)
(* i-th object that was constructed (objs[i]).  The deque                  *)
(* ObstacleManager.obstacles holds identities, as the Python deque holds   *)
(* references.                                                             *)
(*                                                                         *)
(* Every action is one call made by the code that uses the module.  The    *)
(* variable call records the latest call: its name, its arguments, the     *)
(* value it returned and the exception it raised ("none" when it           *)
(* returned).  A caller that catches the exception goes on calling.        *)
(***************************************************************************)
EXTENDS Integers, Sequences, FiniteSets

\* ---------------------------------------------------------------- bounds
MaxTicks == 1
MaxPlayerTicks == 7
MaxLandingTicks == 10
FlightTicks == 7
MaxUpdates == 1
MaxTimeUpdates == 3
MaxObjs == 2
MaxQueue == 2

\* ------------------------------------------------------------- constants
GROUND_Y_LEVEL == -800
INITIAL_JUMP_SPEED_IN_Y == 300
GRAVITY == 200
FIRST_OBSTACLE_OFFSET_IN_X == 800
DESTRUCT_OFFSET_IN_X == 1000
\* class attribute GameState.camera_position; no statement assigns to it
GameState_camera_position == 0
\* Player.__init__: speed = [0.1, 0.0], all four bounds 0.1
PlayerSpeedX == 100
PlayerSpeedY == 0
PlayerBound == 100

\* ------------------------------------------------------------ arithmetic
\* a * b of two fixed-point numbers
Mul(a, b) == (a * b) \div 1000

Max(a, b) == IF a >= b THEN a ELSE b

\* ---------------------------------------------------------------- inputs
\* tick lengths handed to Player.update and GameState.update
DtValues == {700, 1200}
\* tick lengths handed to GameState.update where only the clock is followed
TimeDtValues == {0, 50, 100, 200}
\* Player(x, y=GROUND_Y_LEVEL)
PlayerXValues == {0, 5000}
PlayerYValues == {GROUND_Y_LEVEL}
\* Player(x, y) with a y of the caller's choice, on the ground or above it
PlayerStartYValues == {GROUND_Y_LEVEL, GROUND_Y_LEVEL + 100}
\* tick lengths where a tick of no duration is handed in as well
PlayerDtValues == DtValues \cup {0}
\* CollisionObject(x, y, lower_x_bound, higher_x_bound, lower_y_bound, higher_y_bound)
ObjXValues == {-2000, 0, 500}
ObjYValues == {GROUND_Y_LEVEL, 0}
BoundValues == {<<250, 250, 250, 250>>, <<0, 500, 0, 1000>>}
\* the bounds of the objects the pairwise tests are applied to
ProbeBoundValues == BoundValues \cup {<<500, 250, 500, 250>>}
\* the obstacles of the registry: behind the camera, or at the origin
RegistryXValues == {-2000, 0}
RegistryYValues == {GROUND_Y_LEVEL}

VARIABLES
  player,               \* the Player: x, y, speed, _is_in_air
  jump_action_queued,   \* controller.jump_action_queued
  camera_position,      \* camera_position as read through the game's GameState instance
  total_time_played,    \* total_time_played as read through that instance
  objs,                 \* the CollisionObject / Obstacle instances constructed so far
  obstacles,            \* ObstacleManager.obstacles
  instance,             \* hasattr(ObstacleManager, 'instance')
  ticks,                \* number of Player.update calls made
  updates,              \* number of GameState.update calls made
  add_raised,           \* an add_new_obstacle call has ended with an exception
  call                  \* the latest call

vars == <<player, jump_action_queued, camera_position,
          total_time_played, objs, obstacles, instance, ticks, updates,
          add_raised, call>>

\* ----------------------------------------------------------------- calls
NoPre == [x |-> 0, y |-> 0, vx |-> 0, vy |-> 0, air |-> FALSE, jq |-> FALSE]

NoCall == [op |-> "none", err |-> "none", self |-> -1, other |-> -1,
           dt |-> 0, ret |-> FALSE, pre |-> NoPre]

Called(op) == [NoCall EXCEPT !.op = op]

\* ------------------------------------------------------- CollisionObject
CollisionObject(cls, x, y, b) ==
  [cls |-> cls, x |-> x, y |-> y,
   lower_x_bound |-> b[1], higher_x_bound |-> b[2],
   lower_y_bound |-> b[3], higher_y_bound |-> b[4]]

\* Player.__init__
NewPlayer(x, y) ==
  [x |-> x, y |-> y, vx |-> PlayerSpeedX, vy |-> PlayerSpeedY, air |-> FALSE]

\* the player seen as a CollisionObject
PlayerObject ==
  CollisionObject("Player", player.x, player.y,
                  <<PlayerBound, PlayerBound, PlayerBound, PlayerBound>>)

Ids == 0 .. Len(objs)

Obj(i) == IF i = 0 THEN PlayerObject ELSE objs[i]

\* the identities held by a deque
Range(q) == {q[i] : i \in 1 .. Len(q)}

\* how many times a deque holds the identity o
Count(q, o) == Cardinality({i \in 1 .. Len(q) : q[i] = o})

\* ------------------------------------------------------------------ Init
Init ==
  /\ \E x \in PlayerXValues, y \in PlayerYValues : player = NewPlayer(x, y)
  /\ jump_action_queued = FALSE
  /\ camera_position = GameState_camera_position
  /\ total_time_played = 0
  /\ objs = <<>>
  /\ obstacles = <<>>
  /\ instance = FALSE
  /\ ticks = 0
  /\ updates = 0
  /\ add_raised = FALSE
  /\ call = NoCall

\* ---------------------------------------------------------------- Player
\* Player.update with the gravity branch skipped in the tick that starts a jump
Player_update_no_gravity_on_jump(p, jq, dt) ==
  LET x1 == p.x + Mul(p.vx, dt)
      y1 == p.y + Mul(p.vy, dt)
      jump == jq /\ ~p.air
      vy3 == IF jump THEN INITIAL_JUMP_SPEED_IN_Y
             ELSE IF p.air THEN p.vy - Mul(GRAVITY, dt) ELSE 0
      air3 == IF jump THEN TRUE
              ELSE IF p.air THEN y1 >= GROUND_Y_LEVEL ELSE FALSE
      y3 == Max(y1 + Mul(vy3, dt), GROUND_Y_LEVEL)
  IN [p |-> [x |-> x1, y |-> y3, vx |-> p.vx, vy |-> vy3, air |-> air3],
      jq |-> IF jump THEN FALSE ELSE jq]

\* Player.update clearing the airborne flag at or above the ground and
\* keeping it below
Player_update_clears_above_ground(p, jq, dt) ==
  LET x1 == p.x + Mul(p.vx, dt)
      y1 == p.y + Mul(p.vy, dt)
      jump == jq /\ ~p.air
      vy2 == IF jump THEN INITIAL_JUMP_SPEED_IN_Y ELSE p.vy
      air2 == IF jump THEN TRUE ELSE p.air
      jq2 == IF jump THEN FALSE ELSE jq
      vy3 == IF air2 THEN vy2 - Mul(GRAVITY, dt) ELSE 0
      air3 == IF air2 THEN ~(y1 >= GROUND_Y_LEVEL) ELSE air2
      y3 == Max(y1 + Mul(vy3, dt), GROUND_Y_LEVEL)
  IN [p |-> [x |-> x1, y |-> y3, vx |-> p.vx, vy |-> vy3, air |-> air3],
      jq |-> jq2]

\* Player.update accepting a queued jump whether or not the player is airborne
Player_update_jumps_in_air(p, jq, dt) ==
  LET x1 == p.x + Mul(p.vx, dt)
      y1 == p.y + Mul(p.vy, dt)
      jump == jq
      vy2 == IF jump THEN INITIAL_JUMP_SPEED_IN_Y ELSE p.vy
      air2 == IF jump THEN TRUE ELSE p.air
      jq2 == IF jump THEN FALSE ELSE jq
      vy3 == IF air2 THEN vy2 - Mul(GRAVITY, dt) ELSE 0
      air3 == IF air2 THEN y1 >= GROUND_Y_LEVEL ELSE air2
      y3 == Max(y1 + Mul(vy3, dt), GROUND_Y_LEVEL)
  IN [p |-> [x |-> x1, y |-> y3, vx |-> p.vx, vy |-> vy3, air |-> air3],
      jq |-> jq2]

\* Player.update ending with y = y + vy * dt, the max with the ground left out
Player_update_no_clamp(p, jq, dt) ==
  LET x1 == p.x + Mul(p.vx, dt)
      y1 == p.y + Mul(p.vy, dt)
      jump == jq /\ ~p.air
      vy2 == IF jump THEN INITIAL_JUMP_SPEED_IN_Y ELSE p.vy
      air2 == IF jump THEN TRUE ELSE p.air
      jq2 == IF jump THEN FALSE ELSE jq
      vy3 == IF air2 THEN vy2 - Mul(GRAVITY, dt) ELSE 0
      air3 == IF air2 THEN y1 >= GROUND_Y_LEVEL ELSE air2
      y3 == y1 + Mul(vy3, dt)
  IN [p |-> [x |-> x1, y |-> y3, vx |-> p.vx, vy |-> vy3, air |-> air3],
      jq |-> jq2]

\* Player.update leaving vy as it is when the player is not airborne
Player_update_keeps_vy_on_ground(p, jq, dt) ==
  LET x1 == p.x + Mul(p.vx, dt)
      y1 == p.y + Mul(p.vy, dt)
      jump == jq /\ ~p.air
      vy2 == IF jump THEN INITIAL_JUMP_SPEED_IN_Y ELSE p.vy
      air2 == IF jump THEN TRUE ELSE p.air
      jq2 == IF jump THEN FALSE ELSE jq
      vy3 == IF air2 THEN vy2 - Mul(GRAVITY, dt) ELSE vy2
      air3 == IF air2 THEN y1 >= GROUND_Y_LEVEL ELSE air2
      y3 == Max(y1 + Mul(vy3, dt), GROUND_Y_LEVEL)
  IN [p |-> [x |-> x1, y |-> y3, vx |-> p.vx, vy |-> vy3, air |-> air3],
      jq |-> jq2]

\* Player.update(dt, controller): the player and the controller's flag after it
Player_update(p, jq, dt) ==
  LET x1 == p.x + Mul(p.vx, dt)
      y1 == p.y + Mul(p.vy, dt)
      jump == jq /\ ~p.air
      vy2 == IF jump THEN INITIAL_JUMP_SPEED_IN_Y ELSE p.vy
      air2 == IF jump THEN TRUE ELSE p.air
      jq2 == IF jump THEN FALSE ELSE jq
      vy3 == IF air2 THEN vy2 - Mul(GRAVITY, dt) ELSE 0
      air3 == IF air2 THEN y1 >= GROUND_Y_LEVEL ELSE air2
      y3 == Max(y1 + Mul(vy3, dt), GROUND_Y_LEVEL)
  IN [p |-> [x |-> x1, y |-> y3, vx |-> p.vx, vy |-> vy3, air |-> air3],
      jq |-> jq2]

PlayerUpdate(dt, bound) ==
  /\ ticks < bound
  /\ LET r == Player_update(player, jump_action_queued, dt)
     IN /\ player' = r.p
        /\ jump_action_queued' = r.jq
  /\ ticks' = ticks + 1
  /\ call' = [Called("Player.update") EXCEPT
                !.self = 0, !.dt = dt,
                !.pre = [x |-> player.x, y |-> player.y, vx |-> player.vx,
                         vy |-> player.vy, air |-> player.air,
                         jq |-> jump_action_queued]]
  /\ add_raised' = add_raised
  /\ UNCHANGED <<camera_position, total_time_played, objs, obstacles,
                 instance, updates>>

\* the input collaborator queues a jump
QueueJump ==
  /\ ~jump_action_queued
  /\ jump_action_queued' = TRUE
  /\ call' = Called("queue_jump")
  /\ add_raised' = add_raised
  /\ UNCHANGED <<player, camera_position, total_time_played, objs, obstacles,
                 instance, ticks, updates>>

\* ------------------------------------------------------------- GameState
\* GameState.update storing dt where it should add it
GameStateUpdate_stores_dt(dt, bound) ==
  /\ updates < bound
  /\ camera_position' = player.x
  /\ total_time_played' = dt
  /\ updates' = updates + 1
  /\ call' = [Called("GameState.update") EXCEPT !.dt = dt]
  /\ add_raised' = add_raised
  /\ UNCHANGED <<player, jump_action_queued, objs, obstacles, instance, ticks>>

\* GameState.update(dt) on the game's GameState instance
GameStateUpdate(dt, bound) ==
  /\ updates < bound
  /\ camera_position' = player.x
  /\ total_time_played' = total_time_played + dt
  /\ updates' = updates + 1
  /\ call' = [Called("GameState.update") EXCEPT !.dt = dt]
  /\ add_raised' = add_raised
  /\ UNCHANGED <<player, jump_action_queued, objs, obstacles, instance, ticks>>

\* ------------------------------------------------------- CollisionObject
\* is_colliding_with_object testing the offset against the caller's bounds
is_colliding_with_object_own_bounds(self, other) ==
  /\ self.lower_x_bound <= self.x - other.x
  /\ self.x - other.x <= self.higher_x_bound
  /\ self.lower_y_bound <= self.y - other.y
  /\ self.y - other.y <= self.higher_y_bound

\* CollisionObject.is_colliding_with_object(self, other)
is_colliding_with_object(self, other) ==
  LET collides_in_x == /\ other.lower_x_bound <= self.x - other.x
                       /\ self.x - other.x <= other.higher_x_bound
      collides_in_y == /\ other.lower_y_bound <= self.y - other.y
                       /\ self.y - other.y <= other.higher_y_bound
  IN IF collides_in_x /\ collides_in_y THEN TRUE ELSE FALSE

\* CollisionObject(x, y, ...): a plain collision object; nothing registers it
NewCollisionObject(x, y, b) ==
  /\ Len(objs) < MaxObjs
  /\ objs' = Append(objs, CollisionObject("CollisionObject", x, y, b))
  /\ call' = [Called("CollisionObject") EXCEPT !.self = Len(objs) + 1]
  /\ add_raised' = add_raised
  /\ UNCHANGED <<player, jump_action_queued, camera_position,
                 total_time_played, obstacles, instance, ticks, updates>>

\* a.is_colliding_with_object(b)
IsCollidingWithObject(a, b) ==
  /\ call' = [Called("is_colliding_with_object") EXCEPT
                !.self = a, !.other = b,
                !.ret = is_colliding_with_object(Obj(a), Obj(b))]
  /\ add_raised' = add_raised
  /\ UNCHANGED <<player, jump_action_queued, camera_position,
                 total_time_played, objs, obstacles, instance, ticks, updates>>

\* ------------------------------------------------------- ObstacleManager
\* ObstacleManager._obstacles_do_overlap(obs1, obs2)
obstacles_do_overlap(obs1, obs2) ==
  LET obs1_at_the_left == obs1.x <= obs2.x
      x_overlap == IF obs1_at_the_left
                   THEN obs1.higher_x_bound >= obs2.lower_x_bound
                   ELSE obs1.higher_x_bound <= obs2.lower_x_bound
      obs1_on_top == obs1.y >= obs2.y
      y_overlap == IF obs1_on_top
                   THEN obs1.lower_y_bound >= obs2.higher_y_bound
                   ELSE obs1.lower_y_bound <= obs2.higher_y_bound
  IN x_overlap /\ y_overlap

\* ObstacleManager._obstacles_do_overlap(a, b) called on two objects
ObstaclesDoOverlap(a, b) ==
  /\ call' = [Called("_obstacles_do_overlap") EXCEPT
                !.self = a, !.other = b,
                !.ret = obstacles_do_overlap(Obj(a), Obj(b))]
  /\ add_raised' = add_raised
  /\ UNCHANGED <<player, jump_action_queued, camera_position,
                 total_time_played, objs, obstacles, instance, ticks, updates>>

\* ObstacleManager._set_random_position(curr_obstacle), the exception it
\* ends with.  Its first statement evaluates len(cls.obstacles <= 0): the
\* operands of <= are a deque and an int, neither type defines that
\* comparison, and Python raises TypeError before len() is applied and
\* before either branch is entered.  No obstacle is moved.
set_random_position(deq, curr_obstacle) == "TypeError"

\* ObstacleManager.add_new_obstacle(obstacle): the append, then the call of
\* _set_random_position, whose exception leaves add_new_obstacle
add_new_obstacle(o) ==
  /\ Len(obstacles) < MaxQueue
  /\ obstacles' = Append(obstacles, o)
  /\ call' = [Called("add_new_obstacle") EXCEPT
                !.self = o,
                !.err = set_random_position(Append(obstacles, o), o)]
  /\ add_raised' =
       (add_raised \/ set_random_position(Append(obstacles, o), o) # "none")
  /\ UNCHANGED <<player, jump_action_queued, camera_position,
                 total_time_played, objs, instance, ticks, updates>>

\* ObstacleManager(): type.__call__ hands the class to __new__, and the
\* classmethod wrapper binds the class once more, so __new__(cls) receives
\* two arguments and raises TypeError before its body runs
ObstacleManagerCall ==
  /\ call' = [Called("ObstacleManager") EXCEPT !.err = "TypeError"]
  /\ add_raised' = add_raised
  /\ UNCHANGED <<player, jump_action_queued, camera_position,
                 total_time_played, objs, obstacles, instance, ticks, updates>>

\* ObstacleManager.__new__(): the body of __new__, reached only by calling
\* the classmethod directly; ret tells whether it created the instance
ObstacleManagerNew ==
  /\ instance' = TRUE
  /\ call' = [Called("ObstacleManager.__new__") EXCEPT !.ret = ~instance]
  /\ add_raised' = add_raised
  /\ UNCHANGED <<player, jump_action_queued, camera_position,
                 total_time_played, objs, obstacles, ticks, updates>>

\* -------------------------------------------------------------- Obstacle
\* Obstacle(x, y, ...): CollisionObject.__init__, the append to
\* ObstacleManager.obstacles, then ObstacleManager.set_random_position,
\* a name ObstacleManager does not define (its method is
\* _set_random_position): AttributeError leaves the constructor
NewObstacle(x, y, b) ==
  /\ Len(objs) < MaxObjs
  /\ Len(obstacles) < MaxQueue
  /\ objs' = Append(objs, CollisionObject("Obstacle", x, y, b))
  /\ obstacles' = Append(obstacles, Len(objs) + 1)
  /\ call' = [Called("Obstacle") EXCEPT
                !.self = Len(objs) + 1, !.err = "AttributeError"]
  /\ add_raised' = add_raised
  /\ UNCHANGED <<player, jump_action_queued, camera_position,
                 total_time_played, instance, ticks, updates>>

\* the test of Obstacle.check_for_destroy: it reads the class attribute
\* GameState.camera_position
check_for_destroy(self) ==
  self.x <= GameState_camera_position - DESTRUCT_OFFSET_IN_X

\* o.check_for_destroy(): when the test holds, del self unbinds the local
\* name self and nothing else; ret tells whether the test held
CheckForDestroy(o) ==
  /\ objs[o].cls = "Obstacle"
  /\ call' = [Called("check_for_destroy") EXCEPT
                !.self = o, !.ret = check_for_destroy(objs[o])]
  /\ add_raised' = add_raised
  /\ UNCHANGED <<player, jump_action_queued, camera_position,
                 total_time_played, objs, obstacles, instance, ticks, updates>>

\* ------------------------------------------------------------------ Next
Next ==
  \/ \E dt \in DtValues : PlayerUpdate(dt, MaxTicks)
  \/ QueueJump
  \/ \E dt \in DtValues : GameStateUpdate(dt, MaxUpdates)
  \/ \E x \in RegistryXValues, y \in RegistryYValues, b \in BoundValues :
       NewCollisionObject(x, y, b)
  \/ \E x \in RegistryXValues, y \in RegistryYValues, b \in BoundValues :
       NewObstacle(x, y, b)
  \/ \E a \in Ids, b \in Ids : IsCollidingWithObject(a, b)
  \/ \E a \in Ids, b \in Ids : ObstaclesDoOverlap(a, b)
  \/ \E o \in 1 .. Len(objs) : add_new_obstacle(o)
  \/ \E o \in 1 .. Len(objs) : CheckForDestroy(o)
  \/ ObstacleManagerCall
  \/ ObstacleManagerNew

Spec == Init /\ [][Next]_vars

\* the player alone: ticks and queued jumps
NextPlayer ==
  \/ \E dt \in DtValues : PlayerUpdate(dt, MaxPlayerTicks)
  \/ QueueJump

SpecPlayer == Init /\ [][NextPlayer]_vars

\* the two pairwise tests applied to the objects constructed so far
NextCollision ==
  \/ \E x \in ObjXValues, y \in ObjYValues, b \in ProbeBoundValues :
       NewCollisionObject(x, y, b)
  \/ \E a \in Ids, b \in Ids : IsCollidingWithObject(a, b)
  \/ \E a \in Ids, b \in Ids : ObstaclesDoOverlap(a, b)

SpecCollision == Init /\ [][NextCollision]_vars

\* the player alone, created on the ground or above it, ticks of any length
InitPlayerY ==
  /\ \E x \in PlayerXValues, y \in PlayerStartYValues : player = NewPlayer(x, y)
  /\ jump_action_queued = FALSE
  /\ camera_position = GameState_camera_position
  /\ total_time_played = 0
  /\ objs = <<>>
  /\ obstacles = <<>>
  /\ instance = FALSE
  /\ ticks = 0
  /\ updates = 0
  /\ add_raised = FALSE
  /\ call = NoCall

NextPlayerY ==
  \/ \E dt \in PlayerDtValues : PlayerUpdate(dt, MaxPlayerTicks)
  \/ QueueJump

SpecPlayerY == InitPlayerY /\ [][NextPlayerY]_vars

\* the player alone with ticks that keep occurring: the loop that drives the
\* game calls Player.update once per frame for as long as the bound allows
LandingTick == \E dt \in DtValues : PlayerUpdate(dt, MaxLandingTicks)

NextLanding ==
  \/ LandingTick
  \/ QueueJump

SpecLanding == Init /\ [][NextLanding]_vars /\ WF_vars(LandingTick)

\* the clock: the game state updated tick after tick, the player moving
NextTime ==
  \/ \E dt \in TimeDtValues : GameStateUpdate(dt, MaxTimeUpdates)
  \/ \E dt \in DtValues : PlayerUpdate(dt, MaxTicks)

SpecTime == Init /\ [][NextTime]_vars

\* ================================================================ claims

\* two neighbours of the deque that _obstacles_do_overlap reports, asked as
\* _set_random_position asks it: the later one first
ConsecutiveOverlap ==
  \E i \in 1 .. Len(obstacles) - 1 :
    obstacles_do_overlap(objs[obstacles[i + 1]], objs[obstacles[i]])

C2_MonotonicSpawnOrdering ==
  \A i \in 1 .. Len(obstacles) - 1 :
    objs[obstacles[i]].x < objs[obstacles[i + 1]].x

\* C3 (as claimed): check_for_destroy on an obstacle with
\* x <= camera_position - DESTRUCT_OFFSET_IN_X removes it from the deque, and
\* on an obstacle with a larger x it leaves the deque as it was.
C3_ExpiryCorrectness ==
  [][call'.op = "check_for_destroy" =>
       IF objs[call'.self].x <= camera_position - DESTRUCT_OFFSET_IN_X
       THEN call'.self \notin Range(obstacles')
       ELSE obstacles' = obstacles]_vars

\* C4 (as claimed): add_new_obstacle on an empty deque returns without an
\* error and leaves the obstacle at player.x + FIRST_OBSTACLE_OFFSET_IN_X.
C4_FirstObstaclePlacement ==
  [][(call'.op = "add_new_obstacle" /\ obstacles = <<>>) =>
       /\ call'.err = "none"
       /\ objs'[call'.self].x = player.x + FIRST_OBSTACLE_OFFSET_IN_X]_vars

\* the tick that ended started grounded with a jump queued, and dt > 0
GroundedJumpTick ==
  /\ call.op = "Player.update"
  /\ call.dt > 0
  /\ ~call.pre.air
  /\ call.pre.y = GROUND_Y_LEVEL
  /\ call.pre.vy = 0
  /\ call.pre.jq

\* C5 (as claimed): after a tick that started grounded with a jump queued,
\* vy is INITIAL_JUMP_SPEED_IN_Y and the player is airborne.
C5_JumpKinematics ==
  GroundedJumpTick =>
    /\ player.vy = INITIAL_JUMP_SPEED_IN_Y
    /\ player.air

\* C5 (amended): after a tick that started grounded with a jump queued,
\* vy is INITIAL_JUMP_SPEED_IN_Y - GRAVITY * dt, the gravity of that same
\* tick being applied already, and the player is airborne.
C5_JumpKinematicsAmended ==
  GroundedJumpTick =>
    /\ player.vy = INITIAL_JUMP_SPEED_IN_Y - Mul(GRAVITY, call.dt)
    /\ player.air

C5_Witness ==
  /\ GroundedJumpTick
  /\ player.air
  /\ player.vy = INITIAL_JUMP_SPEED_IN_Y - Mul(GRAVITY, call.dt)
  /\ ~jump_action_queued

\* C6 (as claimed): every add_new_obstacle call on a non-empty deque
\* returns (its placement loop exits).
C6_PlacementReturns ==
  [][(call'.op = "add_new_obstacle" /\ obstacles # <<>>) =>
       call'.err = "none"]_vars

\* C7: a.is_colliding_with_object(b) is true iff the offset of a from b lies
\* within b's bounds on both axes; an object at a's position gets the same
\* answer whatever its own bounds are; and the call changes no state.
C7_PointProbe ==
  [][call'.op = "is_colliding_with_object" =>
       LET self == Obj(call'.self)
           other == Obj(call'.other)
           dx == self.x - other.x
           dy == self.y - other.y
       IN /\ call'.ret = (/\ other.lower_x_bound <= dx
                          /\ dx <= other.higher_x_bound
                          /\ other.lower_y_bound <= dy
                          /\ dy <= other.higher_y_bound)
          /\ \A t \in Ids :
               (Obj(t).x = self.x /\ Obj(t).y = self.y) =>
                 is_colliding_with_object(Obj(t), other) = call'.ret
          /\ UNCHANGED <<player, jump_action_queued, camera_position,
                         total_time_played, objs, obstacles, instance>>]_vars

\* a call that answered true although the caller's own bounds exclude the
\* offset, next to an object at the same place with other bounds
C7_Witness ==
  /\ call.op = "is_colliding_with_object"
  /\ call.ret
  /\ call.self # call.other
  /\ \/ Obj(call.self).x - Obj(call.other).x < Obj(call.self).lower_x_bound
     \/ Obj(call.self).x - Obj(call.other).x > Obj(call.self).higher_x_bound
  /\ \E t \in Ids :
       /\ Obj(t).x = Obj(call.self).x
       /\ Obj(t).y = Obj(call.self).y
       /\ Obj(t).higher_x_bound # Obj(call.self).higher_x_bound

\* C8 (as claimed): creating an Obstacle raises nothing and leaves it at the
\* tail of the deque, and no obstacle is in the deque twice.
C8_ObstacleRegistration ==
  /\ call.op = "Obstacle" =>
       /\ call.err = "none"
       /\ obstacles # <<>>
       /\ obstacles[Len(obstacles)] = call.self
  /\ \A o \in 1 .. Len(objs) : Count(obstacles, o) <= 1

\* C9 (as claimed): every ObstacleManager() succeeds and returns the one
\* instance.
C9_Singleton ==
  call.op = "ObstacleManager" =>
    /\ call.err = "none"
    /\ instance

\* C10 (as claimed): after GameState.update the camera position equals
\* player.x for every reader, the class attribute GameState.camera_position
\* that check_for_destroy reads included.
C10_CameraFollowsPlayer ==
  call.op = "GameState.update" =>
    /\ camera_position = player.x
    /\ GameState_camera_position = player.x

\* C11: every GameState.update(dt) adds dt to total_time_played, which
\* therefore does not decrease when dt >= 0, and no other call changes it:
\* after updates with dt_1 .. dt_n it is its initial value plus their sum.
C11_TimeAccumulation ==
  [][IF call'.op = "GameState.update"
     THEN /\ total_time_played' = total_time_played + call'.dt
          /\ call'.dt >= 0 => total_time_played' >= total_time_played
     ELSE total_time_played' = total_time_played]_vars

\* three updates, the last with 0.05, have brought the clock from 0 to 0.35
C11_Witness ==
  /\ call.op = "GameState.update"
  /\ call.dt = 50
  /\ updates = 3
  /\ total_time_played = 350

\* the tick that ended took the airborne branch of Player.update: the player
\* was airborne when it started, or it started the jump
AirborneTick ==
  /\ call.op = "Player.update"
  /\ call.pre.air \/ call.pre.jq

\* y after the first advance of the tick that ended
AdvancedY == call.pre.y + Mul(call.pre.vy, call.dt)

\* C12 (as claimed): in an airborne tick the flag is cleared when the
\* advanced y is at or above GROUND_Y_LEVEL.
C12_AirborneClearing ==
  (AirborneTick /\ AdvancedY >= GROUND_Y_LEVEL) => ~player.air

\* C12 (amended): in an airborne tick the flag is cleared when the advanced
\* y is below GROUND_Y_LEVEL and stays set when it is at or above it.
C12_AirborneClearingAmended ==
  AirborneTick => (player.air <=> AdvancedY >= GROUND_Y_LEVEL)

\* a falling player went below the ground and the flag was cleared
C12_Witness ==
  /\ AirborneTick
  /\ call.pre.air
  /\ AdvancedY < GROUND_Y_LEVEL
  /\ ~player.air

\* C13: Player.update clears the queued-jump flag, and starts vy from
\* INITIAL_JUMP_SPEED_IN_Y, in the ticks that start with a jump queued and
\* the player not airborne and in no other tick; in a tick that starts
\* airborne the flag is left as it was and vy changes by the gravity of the
\* tick only.
C13_JumpConsumption ==
  call.op = "Player.update" =>
    /\ jump_action_queued = (call.pre.jq /\ call.pre.air)
    /\ player.vy =
         IF call.pre.jq /\ ~call.pre.air
         THEN INITIAL_JUMP_SPEED_IN_Y - Mul(GRAVITY, call.dt)
         ELSE IF call.pre.air
              THEN call.pre.vy - Mul(GRAVITY, call.dt)
              ELSE 0
    /\ call.pre.air =>
         /\ jump_action_queued = call.pre.jq
         /\ player.vy = call.pre.vy - Mul(GRAVITY, call.dt)

\* a tick that started airborne with a jump queued left the jump queued
C13_Witness ==
  /\ call.op = "Player.update"
  /\ call.pre.air
  /\ call.pre.jq
  /\ jump_action_queued
  /\ player.vy = call.pre.vy - Mul(GRAVITY, call.dt)
  /\ player.vy # INITIAL_JUMP_SPEED_IN_Y - Mul(GRAVITY, call.dt)

\* C14: a player created with y >= GROUND_Y_LEVEL has y >= GROUND_Y_LEVEL
\* after every Player.update, whatever dt >= 0 and whatever jumps are queued.
C14_GroundClamp ==
  call.op = "Player.update" => player.y >= GROUND_Y_LEVEL

\* a tick whose second advance would have ended below the ground ended on it
C14_Witness ==
  /\ call.op = "Player.update"
  /\ AdvancedY + Mul(player.vy, call.dt) < GROUND_Y_LEVEL
  /\ player.y = GROUND_Y_LEVEL

\* C15 (as claimed): after every Player.update, a player whose airborne flag
\* is false is at GROUND_Y_LEVEL.
C15_GroundedOnGround ==
  (call.op = "Player.update" /\ ~player.air) => player.y = GROUND_Y_LEVEL

\* the tick that ended made the player airborne
BecameAirborne ==
  /\ call.op = "Player.update"
  /\ player.air
  /\ ~call.pre.air

\* at rest on the ground
Landed ==
  /\ ~player.air
  /\ player.vy = 0
  /\ player.y = GROUND_Y_LEVEL

\* C16: once the player has become airborne (with FlightTicks ticks still to
\* come), ticks with dt > 0 that keep occurring bring it to rest on the
\* ground (airborne false, vy = 0, y = GROUND_Y_LEVEL) unless a further jump
\* is queued meanwhile; and a jump queued at rest on the ground is accepted
\* by the next tick.
C16_LandingLiveness ==
  /\ (BecameAirborne /\ ticks + FlightTicks <= MaxLandingTicks)
        ~> (Landed \/ jump_action_queued)
  /\ [][(Landed /\ jump_action_queued /\ call'.op = "Player.update") =>
          (player'.air /\ ~jump_action_queued')]_vars

\* the tick after the landing: the player, not airborne but still falling
\* at its start, has come to rest on the ground
C16_Witness ==
  /\ call.op = "Player.update"
  /\ ~call.pre.air
  /\ call.pre.vy < 0
  /\ ~call.pre.jq
  /\ Landed

\* the x-axis result as claimed: the higher_x_bound of the obstacle further
\* left against the lower_x_bound of the one further right, the comparison
\* turning with the order of the arguments
ClaimedXOverlap(obs1, obs2) ==
  IF obs1.x <= obs2.x
  THEN obs1.higher_x_bound >= obs2.lower_x_bound
  ELSE obs2.higher_x_bound <= obs1.lower_x_bound

\* the y-axis result as claimed: the lower_y_bound of the obstacle on top
\* against the higher_y_bound of the one below
ClaimedYOverlap(obs1, obs2) ==
  IF obs1.y >= obs2.y
  THEN obs1.lower_y_bound >= obs2.higher_y_bound
  ELSE obs2.lower_y_bound <= obs1.higher_y_bound

\* C17 (as claimed): _obstacles_do_overlap(obs1, obs2) is the conjunction of
\* the two axis results, each taken between the obstacle further left (on
\* top) and the one further right (below), whichever argument that is.
C17_TwoAxisOverlap ==
  call.op = "_obstacles_do_overlap" =>
    call.ret = (/\ ClaimedXOverlap(Obj(call.self), Obj(call.other))
                /\ ClaimedYOverlap(Obj(call.self), Obj(call.other)))

====
